---- MODULE Spec2Model ----
(***************************************************************************)
(* Constrict: the iterative size-targeting controller (compress), the       *)
(* encode-settings deriver (get_encode_settings / get_res_preset) and the   *)
(* two-pass transcode with its polled cancel predicate, as implemented in   *)
(* src/src/constrict_utils.py.                                              *)
(*                                                                          *)
(* Python floats are modelled by exact rationals <<numerator, denominator>> *)
(* in lowest terms.  The inputs enumerated below are chosen so that the     *)
(* double-precision results of the code and the exact results coincide      *)
(* (sizes are 7-smooth multiples of 2^16 of a 25 MiB target).               *)
(***************************************************************************)
EXTENDS Integers, Naturals, Sequences, FiniteSets, TLC

----------------------------------------------------------------------------
(* Bounds of the model *)

\* attempts of one run that the model follows
MaxAttempts == 3

\* progress lines one encoder pass may print before it closes stdout
MaxLines == 1

\* calls of get_encode_settings that are compared with each other
MaxCalls == 2

----------------------------------------------------------------------------
(* Input domains *)

FpsModes == {"AUTO", "PREFER_CLEAR", "PREFER_SMOOTH"}

TargetSizes == {25}

Tolerances == {0, 10}

\* probed sources as <<width, height, framerate, duration in seconds>>:
\* landscape and portrait, 30 and 60 fps, one smaller than the 192x144 frame
\* of the lowest tier; with a 25 MiB target the durations give total
\* bitrates of 3276800, 1638400, 819200, 204800 and 12800 bps
Sources ==
    { <<1920, 1080, 60, 64>>, <<1920, 1080, 60, 128>>, <<1080, 1920, 30, 128>>,
      <<1920, 1080, 60, 256>>, <<1920, 1080, 30, 1024>>, <<160, 120, 30, 1024>>,
      <<1920, 1080, 30, 16384>> }

\* sizes in bytes a completed second pass may leave: 24.5%, 85.75%, 98%,
\* 100% and 196% of a 25 MiB target
OutputSizes == {6422528, 22478848, 25690112, 26214400, 51380224}

\* sizes in bytes of the output file of a second pass that was killed or
\* that failed: nothing written yet, or 56% or 98% of a 25 MiB target
PartialSizes == {0, 14680064, 25690112}

\* stderr text of a failed encoder process
EncoderErrors == {"Conversion failed!", ""}

\* size of the input file relative to the target: at most it, or above it
InputSizes(target_size_bytes) == {target_size_bytes, 4 * target_size_bytes}

----------------------------------------------------------------------------
(* Messages returned by compress *)

ErrInput == "Constrict: Could not read input file."
ErrAlreadyMeets == "Constrict: File already meets the target size."
ErrProbe == "Constrict: Could not retrieve video properties."
ErrExists == "Constrict: Could not create exported file. A file with the reserved name already exists."
ErrPermission == "Constrict: Could not create exported file. There are insufficient permissions."
ErrBitrate == "Constrict: Video bitrate got too low (<5 kbps)."
ErrOutput == "Constrict: Cannot read output file."

----------------------------------------------------------------------------
(* Exact arithmetic standing in for float *)

RECURSIVE GCD(_, _)
GCD(a, b) == IF b = 0 THEN a ELSE GCD(b, a % b)

\* n/d in lowest terms, n >= 0, d > 0
Rat(n, d) ==
    LET g == GCD(n, d) IN <<n \div g, d \div g>>

RatMul(x, y) ==
    LET g1 == GCD(x[1], y[2])
        g2 == GCD(y[1], x[2])
    IN  Rat((x[1] \div g1) * (y[1] \div g2), (x[2] \div g2) * (y[2] \div g1))

\* x / y, y > 0
RatDiv(x, y) == RatMul(x, <<y[2], y[1]>>)

RatLess(x, y) == x[1] * y[2] < y[1] * x[2]

\* Python round(): to nearest, ties to even
Round(x) ==
    LET q == x[1] \div x[2]
        r == x[1] % x[2]
    IN  IF 2 * r < x[2] THEN q
        ELSE IF 2 * r > x[2] THEN q + 1
        ELSE IF q % 2 = 0 THEN q ELSE q + 1

\* Python int(x // 1) for x >= 0
Floor(x) == x[1] \div x[2]

----------------------------------------------------------------------------
(* get_res_preset *)

\* tiers as <<bitrate lower bound in kbps, preset width, preset height>>,
\* in the iteration order of the dictionaries
bitrate_res_map_30 ==
    << <<12000, 3840, 2160>>, <<6000, 2560, 1440>>, <<1800, 1920, 1080>>,
       <<1024, 1280, 720>>, <<512, 640, 480>>, <<276, 640, 360>>,
       <<150, 320, 240>>, <<0, 192, 144>> >>

bitrate_res_map_60 ==
    << <<18000, 3840, 2160>>, <<9000, 2560, 1440>>, <<3000, 1920, 1080>>,
       <<1800, 1280, 720>>, <<750, 640, 480>>, <<276, 640, 360>>,
       <<150, 320, 240>>, <<0, 192, 144>> >>

\* the tier test without the pixel count
TierMatchesBitrateOnly(tier, bitrate, source_pixels) ==
    bitrate >= 1000 * tier[1]

\* bitrate_kbps >= bitrate_lower_bound and source_pixels >= preset_pixels
TierMatches(tier, bitrate, source_pixels) ==
    /\ bitrate >= 1000 * tier[1]
    /\ source_pixels >= tier[2] * tier[3]

\* the fallback with the two edges exchanged
NoTierFallbackLongEdge(source_width, source_height) ==
    IF source_height > source_width THEN source_height ELSE source_width

\* portrait = source_height > source_width
\* return source_width if portrait else source_height
NoTierFallback(source_width, source_height) ==
    IF source_height > source_width THEN source_width ELSE source_height

get_res_preset(bitrate, source_width, source_height, framerate) ==
    LET source_pixels == source_width * source_height
        bitrate_res_map ==
            IF framerate <= 30 THEN bitrate_res_map_30 ELSE bitrate_res_map_60
        matching == {i \in 1..Len(bitrate_res_map) :
                        TierMatches(bitrate_res_map[i], bitrate, source_pixels)}
        first == CHOOSE i \in matching : \A j \in matching : i <= j
    IN  IF matching # {}
        THEN bitrate_res_map[first][3]
        ELSE NoTierFallback(source_width, source_height)

----------------------------------------------------------------------------
(* get_encode_settings *)

\* lowest_res is None until a ceiling is recorded
None == 0

\* the threshold without the audio bitrate in it
CrushModeVideoOnly(target_bitrate, force_crush) ==
    target_bitrate < 150 * 1000 \/ force_crush

\* the threshold test alone, without "or force_crush"
CrushModeWithoutForce(target_bitrate, force_crush) ==
    target_bitrate < (150 + 96) * 1000

\* the threshold test written with <=
CrushModeInclusive(target_bitrate, force_crush) ==
    target_bitrate <= (150 + 96) * 1000 \/ force_crush

\* (target_bitrate / 1000) < 150 + 96 or force_crush
CrushMode(target_bitrate, force_crush) ==
    target_bitrate < (150 + 96) * 1000 \/ force_crush

\* the factor applied the wrong way round:
\* target_bitrate = round(target_size_bits / duration) * (2 - factor)
CompensatedBitrateReversed(target_size_bits, duration, factor) ==
    Round(RatMul(RatMul(<<Round(Rat(target_size_bits, duration)), 1>>,
                        <<2 * factor[2] - factor[1], factor[2]>>),
                 <<193, 200>>))

\* target_bitrate = round(target_size_bits / duration) * factor
\* target_bitrate = round(target_bitrate * 0.965)
CompensatedBitrate(target_size_bits, duration, factor) ==
    Round(RatMul(RatMul(<<Round(Rat(target_size_bits, duration)), 1>>, factor),
                 <<193, 200>>))

\* the test with "at or above" in place of "above"
CeilingAppliesAtOrAbove(preset_height, locked_in_height) ==
    locked_in_height # None /\ preset_height >= locked_in_height

\* locked_in_height and preset_height > locked_in_height
CeilingApplies(preset_height, locked_in_height) ==
    locked_in_height # None /\ preset_height > locked_in_height

\* the test without heights_match
AutoMaxFpsIgnoresMismatch(preset_height_30fps, preset_height_60fps) ==
    IF preset_height_30fps >= 720 THEN 60 ELSE 30

\* max_fps = 60.0 if heights_match and preset_height >= 720 else 30.0
AutoMaxFps(preset_height_30fps, preset_height_60fps) ==
    IF preset_height_30fps = preset_height_60fps /\ preset_height_30fps >= 720
    THEN 60 ELSE 30

\* target_fps = max_fps whatever the source has
ClampFpsToCeiling(fps, max_fps) == max_fps

\* target_fps = fps if fps <= max_fps else max_fps
ClampFps(fps, max_fps) == IF fps <= max_fps THEN fps ELSE max_fps

\* a third, middle audio bitrate outside crush mode
AudioBitrateMedium(crush_mode) == IF crush_mode THEN 6000 ELSE 64000

\* target_audio_bitrate = 6000 if crush_mode else 96000
AudioBitrate(crush_mode) == IF crush_mode THEN 6000 ELSE 96000

\* the ceiling with the policy looked at before crush mode
MaxFpsPolicyFirst(crush_mode, fps_mode, preset_height_30fps, preset_height_60fps) ==
    IF fps_mode = "PREFER_CLEAR" THEN 30
    ELSE IF fps_mode = "PREFER_SMOOTH" THEN 60
    ELSE IF crush_mode THEN 24
    ELSE AutoMaxFps(preset_height_30fps, preset_height_60fps)

\* max_fps: 24 in crush mode, else 30 for PREFER_CLEAR, 60 for
\* PREFER_SMOOTH and the AUTO rule otherwise
MaxFps(crush_mode, fps_mode, preset_height_30fps, preset_height_60fps) ==
    IF crush_mode THEN 24
    ELSE IF fps_mode = "PREFER_CLEAR" THEN 30
    ELSE IF fps_mode = "PREFER_SMOOTH" THEN 60
    ELSE AutoMaxFps(preset_height_30fps, preset_height_60fps)

get_encode_settings(target_size_MiB, fps_mode, width, height, fps, duration, factor, force_crush, locked_in_height) ==
    LET target_size_bits == target_size_MiB * 1024 * 1024 * 8
        target_bitrate == CompensatedBitrate(target_size_bits, duration, factor)
        crush_mode == CrushMode(target_bitrate, force_crush)
        target_audio_bitrate == AudioBitrate(crush_mode)
        target_video_bitrate == target_bitrate - target_audio_bitrate
        preset_height_30fps == get_res_preset(target_video_bitrate, width, height, 30)
        preset_height_60fps == get_res_preset(target_video_bitrate, width, height, 60)
        max_fps == MaxFps(crush_mode, fps_mode, preset_height_30fps,
                          preset_height_60fps)
        target_fps == ClampFps(fps, max_fps)
        preset_height ==
            IF ~crush_mode /\ fps_mode = "AUTO"
            THEN preset_height_30fps
            ELSE get_res_preset(target_video_bitrate, width, height, target_fps)
        res_reduction_applied == CeilingApplies(preset_height, locked_in_height)
    IN  [ video_bitrate |-> target_video_bitrate,
          audio_bitrate |-> target_audio_bitrate,
          height |-> IF res_reduction_applied THEN locked_in_height ELSE preset_height,
          fps |-> target_fps,
          res_reduction_applied |-> res_reduction_applied ]

----------------------------------------------------------------------------
(* State of one compression run and of its environment *)

VARIABLES
    target_size_MiB, framerate_option, tolerance,           \* arguments of compress
    cancel,             \* what cancel_event() returns when polled now
    pc,                 \* position of the controller in compress / transcode
    result_kind,        \* "running", "size", "error", "cancelled", "exception"
    result_size,        \* the returned int when result_kind = "size"
    result_text,        \* the returned str, or the name of the raised exception
    before_size_bytes,
    width, height, source_fps, duration_seconds,            \* probed properties
    out_file,           \* size of file_output on disk, Absent when there is none
    out_partial,        \* the content of file_output comes from an unfinished encode
    factor, attempt, percent_of_target, after_size_bytes, force_crush, lowest_res,
    target_video_bitrate, target_audio_bitrate, target_height, target_width,
    target_fps, res_reduction_applied, is_hq_audio,
    transcode_error,    \* <<>> for None, <<text>> for an error text
    lines_read,         \* progress lines read from the running encoder pass
    log,                \* calls made so far, as <<name, attempt>>
    fault,              \* what the environment last refused: "none", "input missing", "probe failed",
                        \* "output exists", "no permission", "output missing"
    killed_at,          \* attempt in which get_progress first read cancel true and killed the encoder, else 0
    cancel_in_pass,     \* attempt during a pass of which cancel first became true, else 0
    returned,           \* what the calls of get_encode_settings made on their own returned, oldest first
    export_enabled,     \* per window: export_action is enabled
    compressing,        \* per window: self.compressing
    folder_dialog,      \* per window: the folder dialog of export_file_dialog is open
    rows,               \* per window: the states of the rows of sources_list_box, in order
    threads,            \* the running bulk_compress threads, in the order they were started
    codec, can_ha,      \* the codec and whether transcode uses hardware acceleration
    nb_read_packets,    \* the number of video packets of the source
    source_frame_count, \* what get_frame_count returned
    frame_count,        \* dest_frame_count, the estimate passed to get_progress
    pass_num,           \* the pass number get_progress was given, NoPass for None
    frame,              \* the frame number of the last "frame=" line
    progress_fraction   \* the fraction last passed to output_fn

inputs == <<target_size_MiB, framerate_option, tolerance>>
source == <<before_size_bytes, width, height, source_fps, duration_seconds>>
outfile == <<out_file, out_partial>>
loopvars == <<factor, attempt, percent_of_target, after_size_bytes, force_crush, lowest_res>>
settings == <<target_video_bitrate, target_audio_bitrate, target_height, target_width,
              target_fps, res_reduction_applied, is_hq_audio>>
encoder == <<transcode_error, lines_read>>
outcome == <<result_kind, result_size, result_text>>
gui == <<export_enabled, compressing, folder_dialog, rows, threads>>
progress == <<codec, can_ha, nb_read_packets, source_frame_count, frame_count,
              pass_num, frame, progress_fraction>>

vars == <<inputs, cancel, pc, outcome, source, outfile, loopvars, settings,
          encoder, log, fault, killed_at, cancel_in_pass, returned, gui, progress>>

\* pass_num is None
NoPass == -1

\* no progress is being reported
ProgressIdle ==
    /\ codec = "H264" /\ can_ha = FALSE
    /\ nb_read_packets = 0 /\ source_frame_count = 0 /\ frame_count = 0
    /\ pass_num = NoPass /\ frame = 0
    /\ progress_fraction = <<0, 1>>

\* the application windows, by the number get_id() gives them
Windows == {1, 2}

\* ConstrictWindow.__init__: no rows, export disabled, nothing running
GuiIdle ==
    /\ export_enabled = [w \in Windows |-> FALSE]
    /\ compressing = [w \in Windows |-> FALSE]
    /\ folder_dialog = [w \in Windows |-> FALSE]
    /\ rows = [w \in Windows |-> <<>>]
    /\ threads = <<>>

Absent == -1

target_size_bytes == target_size_MiB * 1024 * 1024

Init ==
    /\ target_size_MiB \in TargetSizes
    /\ framerate_option \in FpsModes
    /\ tolerance \in Tolerances
    /\ cancel = FALSE
    /\ pc = "start"
    /\ result_kind = "running" /\ result_size = 0 /\ result_text = ""
    /\ before_size_bytes = 0
    /\ width = 0 /\ height = 0 /\ source_fps = 0 /\ duration_seconds = 0
    /\ out_file = Absent /\ out_partial = FALSE
    /\ factor = <<1, 1>> /\ attempt = 0 /\ percent_of_target = <<200, 1>>
    /\ after_size_bytes = 0 /\ force_crush = FALSE /\ lowest_res = None
    /\ target_video_bitrate = 0 /\ target_audio_bitrate = 0
    /\ target_height = 0 /\ target_width = 0 /\ target_fps = 0
    /\ res_reduction_applied = FALSE /\ is_hq_audio = FALSE
    /\ transcode_error = <<>> /\ lines_read = 0
    /\ log = <<>>
    /\ fault = "none"
    /\ killed_at = 0 /\ cancel_in_pass = 0
    /\ returned = <<>>
    /\ GuiIdle
    /\ ProgressIdle

\* return <value> from compress
ReturnError(text) ==
    /\ pc' = "done"
    /\ result_kind' = "error" /\ result_text' = text /\ result_size' = 0

ReturnSize(size) ==
    /\ pc' = "done"
    /\ result_kind' = "size" /\ result_size' = size /\ result_text' = ""

ReturnNone ==
    /\ pc' = "done"
    /\ result_kind' = "cancelled" /\ result_size' = 0 /\ result_text' = ""

\* an exception that nothing in compress catches
Raise(exception) ==
    /\ pc' = "done"
    /\ result_kind' = "exception" /\ result_text' = exception /\ result_size' = 0

Continue(next) ==
    /\ pc' = next
    /\ UNCHANGED outcome

----------------------------------------------------------------------------
(* compress, before the attempt loop *)

\* file_input_path.is_file()
CheckInput ==
    /\ pc = "start"
    /\ \E is_file \in BOOLEAN :
          IF ~is_file
          THEN ReturnError(ErrInput) /\ fault' = "input missing"
          ELSE Continue("stat_input") /\ UNCHANGED fault
    /\ UNCHANGED <<progress, gui, inputs, returned, cancel, source, outfile, loopvars, settings,
                   encoder, log, killed_at, cancel_in_pass>>

\* the comparison written as before_size_bytes < target_size_bytes
AlreadyMeetsTargetStrict(before, target) == before < target

\* before_size_bytes <= target_size_bytes
AlreadyMeetsTarget(before, target) == before <= target

\* os.stat(file_input) and the comparison with the target; the input file
\* is taken to stay in place between is_file() and os.stat()
StatInput ==
    /\ pc = "stat_input"
    /\ \E size \in InputSizes(target_size_bytes) :
          /\ before_size_bytes' = size
          /\ IF AlreadyMeetsTarget(size, target_size_bytes)
             THEN ReturnError(ErrAlreadyMeets)
             ELSE Continue("probe")
    /\ UNCHANGED <<progress, gui, inputs, returned, cancel, width, height, source_fps, duration_seconds,
                   outfile, loopvars, settings, encoder, log, fault, killed_at,
                   cancel_in_pass>>

\* get_duration .. get_rotation run ffprobe; a non-zero exit
\* (CalledProcessError) is caught; an answer that int() or float() cannot
\* parse (no video stream in the file) raises ValueError, which is not
ProbeOutcomes == {"ok", "CalledProcessError", "ValueError"}

Probe ==
    /\ pc = "probe"
    /\ \E probed \in ProbeOutcomes :
          CASE probed = "CalledProcessError" ->
                  /\ ReturnError(ErrProbe)
                  /\ fault' = "probe failed"
                  /\ UNCHANGED <<width, height, source_fps, duration_seconds>>
            [] probed = "ValueError" ->
                  /\ Raise("ValueError")
                  /\ UNCHANGED <<fault, width, height, source_fps, duration_seconds>>
            [] probed = "ok" ->
                  /\ \E src \in Sources :
                        /\ width' = src[1] /\ height' = src[2]
                        /\ source_fps' = src[3] /\ duration_seconds' = src[4]
                  /\ UNCHANGED fault
                  /\ Continue("touch")
    /\ UNCHANGED <<progress, gui, inputs, returned, cancel, before_size_bytes, outfile, loopvars,
                   settings, encoder, log, killed_at, cancel_in_pass>>

\* Path(file_output).touch(exist_ok=False)
TouchOutcomes == {"created", "FileExistsError", "PermissionError"}

\* touch(exist_ok=True): an existing file is taken over
TouchExistOk ==
    /\ pc = "touch"
    /\ \E touched \in TouchOutcomes :
          CASE touched = "FileExistsError" ->
                  /\ out_file' = 0 /\ out_partial' = FALSE
                  /\ fault' = "output exists"
                  /\ Continue("init")
            [] touched = "PermissionError" ->
                  /\ ReturnError(ErrPermission)
                  /\ fault' = "no permission"
                  /\ UNCHANGED outfile
            [] touched = "created" ->
                  /\ out_file' = 0 /\ out_partial' = FALSE
                  /\ UNCHANGED fault
                  /\ Continue("init")
    /\ UNCHANGED <<progress, gui, inputs, returned, cancel, source, loopvars, settings, encoder,
                   log, killed_at, cancel_in_pass>>

\* try: touch; except FileExistsError / PermissionError: return the message
Touch ==
    /\ pc = "touch"
    /\ \E touched \in TouchOutcomes :
          CASE touched = "FileExistsError" ->
                  /\ ReturnError(ErrExists)
                  /\ fault' = "output exists"
                  /\ UNCHANGED outfile
            [] touched = "PermissionError" ->
                  /\ ReturnError(ErrPermission)
                  /\ fault' = "no permission"
                  /\ UNCHANGED outfile
            [] touched = "created" ->
                  /\ out_file' = 0 /\ out_partial' = FALSE
                  /\ UNCHANGED fault
                  /\ Continue("init")
    /\ UNCHANGED <<progress, gui, inputs, returned, cancel, source, loopvars, settings, encoder,
                   log, killed_at, cancel_in_pass>>

\* will_ha_work: vainfo lists the profile or not, or exits non-zero
VainfoOutcomes == {"listed", "not listed", "CalledProcessError"}

\* initialise values; can_ha = use_ha and will_ha_work(codec).  can_ha only
\* selects the encoder library in the ffmpeg command line and is not kept.
InitLoop ==
    /\ pc = "init"
    /\ \E use_ha \in BOOLEAN :
          IF ~use_ha
          THEN Continue("loop")
          ELSE \E vainfo \in VainfoOutcomes :
                  IF vainfo = "CalledProcessError"
                  THEN Raise("CalledProcessError")
                  ELSE Continue("loop")
    /\ UNCHANGED <<progress, gui, inputs, returned, cancel, source, outfile, loopvars, settings, encoder,
                   log, fault, killed_at, cancel_in_pass>>

----------------------------------------------------------------------------
(* compress, the attempt loop *)

\* the while test without its second disjunct
LoopContinuesNoUpper(percent, tol) ==
    RatLess(percent, <<100 - tol, 1>>)

\* (percent_of_target < 100 - tolerance) or (percent_of_target > 100)
LoopContinues(percent, tol) ==
    RatLess(percent, <<100 - tol, 1>>) \/ RatLess(<<100, 1>>, percent)

\* on_attempt_fail called at the head of every pass of the loop
ReportsFailureAlways(previous) == TRUE

\* if attempt > 0: on_attempt_fail(attempt, ...)
ReportsFailure(previous) == previous > 0

\* the while test; on exit, return after_size_bytes; otherwise
\* on_attempt_fail for the previous attempt and attempt += 1
LoopHead ==
    /\ pc = "loop"
    /\ IF ~LoopContinues(percent_of_target, tolerance)
       THEN /\ ReturnSize(after_size_bytes)
            /\ UNCHANGED <<attempt, log>>
       ELSE /\ attempt < MaxAttempts
            /\ attempt' = attempt + 1
            /\ log' = IF ReportsFailure(attempt)
                      THEN Append(log, <<"on_attempt_fail", attempt>>)
                      ELSE log
            /\ Continue("derive")
    /\ UNCHANGED <<progress, gui, inputs, returned, cancel, source, outfile, factor,
                   percent_of_target, after_size_bytes, force_crush, lowest_res,
                   settings, encoder, fault, killed_at, cancel_in_pass>>

\* the floor test written as target_video_bitrate < 0
BitrateTooLowNegative(video_bitrate) == video_bitrate < 0

\* target_video_bitrate < 5000
BitrateTooLow(video_bitrate) == video_bitrate < 5000

\* the long edge of the output frame, rounded to an even number:
\* int(((long / scaling_factor + 1) // 2) * 2) with scaling_factor = short / preset
ScaledEdge(long, short, preset) ==
    LET scaled == Rat(long * preset, short)
    IN  Floor(<<scaled[1] + scaled[2], 2 * scaled[2]>>) * 2

\* get_encode_settings, on_new_attempt, the bitrate floor and the output frame
Derive ==
    /\ pc = "derive"
    /\ LET s == get_encode_settings(target_size_MiB, framerate_option, width,
                                    height, source_fps, duration_seconds, factor,
                                    force_crush, lowest_res)
           portrait == height > width
       IN  /\ target_video_bitrate' = s.video_bitrate
           /\ target_audio_bitrate' = s.audio_bitrate
           /\ target_fps' = s.fps
           /\ res_reduction_applied' = s.res_reduction_applied
           /\ is_hq_audio' = (s.audio_bitrate > 48000)
           /\ force_crush' = (force_crush \/ ~(s.audio_bitrate > 48000))
           /\ log' = log \o << <<"get_encode_settings", attempt>>,
                               <<"on_new_attempt", attempt>> >>
           /\ IF BitrateTooLow(s.video_bitrate)
              THEN /\ ReturnError(ErrBitrate)
                   /\ target_height' = s.height
                   /\ UNCHANGED target_width
              ELSE /\ target_width' = IF portrait THEN s.height
                                      ELSE ScaledEdge(width, height, s.height)
                   /\ target_height' = IF portrait
                                       THEN ScaledEdge(height, width, s.height)
                                       ELSE s.height
                   /\ Continue("transcode")
    /\ UNCHANGED <<progress, gui, inputs, returned, cancel, source, outfile, factor, attempt,
                   percent_of_target, after_size_bytes, lowest_res, encoder,
                   fault, killed_at, cancel_in_pass>>

----------------------------------------------------------------------------
(* transcode and get_progress *)

\* the encoder is started and compress goes on without waiting for it
TranscodeStartDetached ==
    /\ pc = "transcode"
    /\ log' = Append(log, <<"transcode", attempt>>)
    /\ transcode_error' = <<>>
    /\ lines_read' = 0
    /\ Continue("loop")
    /\ UNCHANGED <<progress, gui, inputs, returned, cancel, source, outfile, loopvars, settings,
                   fault, killed_at, cancel_in_pass>>

\* transcode is entered; if cancel_event(): return None, else pass 1 is spawned
TranscodeStart ==
    /\ pc = "transcode"
    /\ log' = Append(log, <<"transcode", attempt>>)
    /\ transcode_error' = <<>>
    /\ lines_read' = 0
    /\ IF cancel
       THEN Continue("after_transcode")
       ELSE Continue("pass1")
    /\ UNCHANGED <<progress, gui, inputs, returned, cancel, source, outfile, loopvars, settings,
                   fault, killed_at, cancel_in_pass>>

\* get_progress reads one line of the encoder's stdout and polls
\* cancel_event(); on True it kills the process and returns (None, None)
CancelSeen(flag) == flag = TRUE

Pass1Line ==
    /\ pc = "pass1"
    /\ lines_read < MaxLines
    /\ IF CancelSeen(cancel)
       THEN /\ killed_at' = IF killed_at = 0 THEN attempt ELSE killed_at
            /\ lines_read' = 0
            /\ Continue("pass2_check")
       ELSE /\ lines_read' = lines_read + 1
            /\ UNCHANGED killed_at
            /\ Continue("pass1")
    /\ UNCHANGED <<progress, gui, inputs, returned, cancel, source, outfile, loopvars, settings,
                   transcode_error, log, fault, cancel_in_pass>>

\* stdout of pass 1 is exhausted; proc.wait(); a non-zero return code makes
\* transcode return the decoded stderr
Pass1Exit ==
    /\ pc = "pass1"
    /\ lines_read' = 0
    /\ \/ /\ transcode_error' = <<>>
          /\ Continue("pass2_check")
       \/ \E text \in EncoderErrors :
             /\ transcode_error' = <<text>>
             /\ Continue("after_transcode")
    /\ UNCHANGED <<progress, gui, inputs, returned, cancel, source, outfile, loopvars, settings,
                   log, fault, killed_at, cancel_in_pass>>

\* progress_error was None; if cancel_event(): return None, else pass 2 is
\* spawned and opens (truncates) file_output
Pass2Start ==
    /\ pc = "pass2_check"
    /\ IF cancel
       THEN /\ Continue("after_transcode")
            /\ UNCHANGED outfile
       ELSE /\ out_file' = 0 /\ out_partial' = TRUE
            /\ Continue("pass2")
    /\ UNCHANGED <<progress, gui, inputs, returned, cancel, source, loopvars, settings, encoder, log,
                   fault, killed_at, cancel_in_pass>>

Pass2Line ==
    /\ pc = "pass2"
    /\ lines_read < MaxLines
    /\ IF CancelSeen(cancel)
       THEN /\ killed_at' = IF killed_at = 0 THEN attempt ELSE killed_at
            /\ lines_read' = 0
            /\ out_file' \in PartialSizes
            /\ out_partial' = TRUE
            /\ Continue("after_transcode")
       ELSE /\ lines_read' = lines_read + 1
            /\ UNCHANGED <<fault, killed_at, outfile>>
            /\ Continue("pass2")
    /\ UNCHANGED <<progress, gui, inputs, returned, cancel, source, loopvars, settings,
                   transcode_error, log, fault, cancel_in_pass>>

\* stdout of pass 2 is exhausted: the encoder finished the file (return code
\* 0) or failed and left what it had written
Pass2Exit ==
    /\ pc = "pass2"
    /\ lines_read' = 0
    /\ \/ /\ transcode_error' = <<>>
          /\ out_file' \in OutputSizes
          /\ out_partial' = FALSE
       \/ /\ \E text \in EncoderErrors : transcode_error' = <<text>>
          /\ out_file' \in PartialSizes
          /\ out_partial' = TRUE
    /\ Continue("after_transcode")
    /\ UNCHANGED <<progress, gui, inputs, returned, cancel, source, loopvars, settings, log, fault, killed_at,
                   cancel_in_pass>>

----------------------------------------------------------------------------
(* compress, after transcode has returned *)

\* the two tests in the other order
AfterTranscodeCancelFirst ==
    /\ pc = "after_transcode"
    /\ IF cancel
       THEN ReturnNone
       ELSE IF transcode_error # <<>>
       THEN ReturnError(transcode_error[1])
       ELSE Continue("measure")
    /\ UNCHANGED <<progress, gui, inputs, returned, cancel, source, outfile, loopvars, settings,
                   encoder, log, fault, killed_at, cancel_in_pass>>

\* if transcode_error != None: return transcode_error
\* if cancel_event(): return None
AfterTranscode ==
    /\ pc = "after_transcode"
    /\ IF transcode_error # <<>>
       THEN ReturnError(transcode_error[1])
       ELSE IF cancel
       THEN ReturnNone
       ELSE Continue("measure")
    /\ UNCHANGED <<progress, gui, inputs, returned, cancel, source, outfile, loopvars, settings,
                   encoder, log, fault, killed_at, cancel_in_pass>>

\* the early exit without the percent_of_target < 100 test
EarlyExitAnySize(reduced, percent) == reduced

\* the loop without the early exit of lines 806-807
EarlyExitNever(reduced, percent) == FALSE

\* res_reduction_applied and percent_of_target < 100
EarlyExit(reduced, percent) == reduced /\ RatLess(percent, <<100, 1>>)

\* the ceiling recorded whatever was measured
RecordsCeilingAlways(percent) == TRUE

\* percent_of_target > 50
RecordsCeiling(percent) == RatLess(<<50, 1>>, percent)

\* os.stat(file_output) without the try/except around it
OutputMissingRaises ==
    /\ Raise("FileNotFoundError")
    /\ fault' = "output missing"

\* except FileNotFoundError: return "Cannot read output file"
OutputMissing ==
    /\ ReturnError(ErrOutput)
    /\ fault' = "output missing"

\* factor *= 0.98 * ((100 - percent_of_target) / percent_of_target)
NextFactorByError(old_factor, percent) ==
    RatMul(old_factor,
           RatMul(<<49, 50>>, <<100 * percent[2] - percent[1], percent[1]>>))

\* factor *= 0.98 * (percent_of_target / 100)
NextFactorByMeasure(old_factor, percent) ==
    RatMul(old_factor, RatMul(<<49, 50>>, RatDiv(percent, <<100, 1>>)))

\* factor *= 0.98 * (100 / percent_of_target)
NextFactor(old_factor, percent) ==
    RatMul(old_factor, RatMul(<<49, 50>>, RatDiv(<<100, 1>>, percent)))

\* os.stat(file_output), percent_of_target, the early exit, the resolution
\* ceiling and the new factor
Measure ==
    /\ pc = "measure"
    /\ IF out_file = Absent
       THEN /\ OutputMissing
            /\ UNCHANGED <<loopvars, log>>
       ELSE LET percent == RatMul(Rat(100, target_size_bytes), <<out_file, 1>>)
            IN  /\ after_size_bytes' = out_file
                /\ percent_of_target' = percent
                /\ log' = Append(log, <<"measure", attempt>>)
                /\ UNCHANGED <<attempt, force_crush, fault>>
                /\ IF EarlyExit(res_reduction_applied, percent)
                   THEN /\ ReturnSize(out_file)
                        /\ UNCHANGED <<lowest_res, factor>>
                   ELSE /\ lowest_res' = IF RecordsCeiling(percent)
                                         THEN target_height ELSE lowest_res
                        /\ IF percent[1] = 0
                           THEN /\ Raise("ZeroDivisionError")
                                /\ UNCHANGED factor
                           ELSE /\ factor' = NextFactor(factor, percent)
                                /\ Continue("loop")
    /\ UNCHANGED <<progress, gui, inputs, returned, cancel, source, outfile, settings, encoder,
                   killed_at, cancel_in_pass>>

----------------------------------------------------------------------------
(* Environment *)

Running == pc # "done"

InPass == pc \in {"pass1", "pass2"}

\* the user confirms "Stop": the predicate `not self.compressing` turns true
UserStop ==
    /\ Running
    /\ ~cancel
    /\ cancel' = TRUE
    /\ cancel_in_pass' = IF InPass /\ cancel_in_pass = 0 THEN attempt
                         ELSE cancel_in_pass
    /\ UNCHANGED <<progress, gui, inputs, returned, pc, outcome, source, outfile, loopvars,
                   settings, encoder, log, fault, killed_at>>

\* another export of the same window begins: bulk_compress sets
\* self.compressing = True and the predicate turns false again
ExportBegins ==
    /\ Running
    /\ cancel
    /\ cancel' = FALSE
    /\ UNCHANGED <<progress, gui, inputs, returned, pc, outcome, source, outfile, loopvars,
                   settings, encoder, log, fault, killed_at, cancel_in_pass>>

\* file_output is moved or deleted by someone else after the encoder is done
\* with it
OutputVanishes ==
    /\ pc \in {"after_transcode", "measure"}
    /\ out_file # Absent
    /\ out_file' = Absent
    /\ UNCHANGED <<progress, gui, inputs, returned, cancel, pc, outcome, source, out_partial,
                   loopvars, settings, encoder, log, fault, killed_at, cancel_in_pass>>

Next ==
    \/ CheckInput
    \/ StatInput
    \/ Probe
    \/ Touch
    \/ InitLoop
    \/ LoopHead
    \/ Derive
    \/ TranscodeStart
    \/ Pass1Line
    \/ Pass1Exit
    \/ Pass2Start
    \/ Pass2Line
    \/ Pass2Exit
    \/ AfterTranscode
    \/ Measure
    \/ UserStop
    \/ ExportBegins
    \/ OutputVanishes

Spec == Init /\ [][Next]_vars

\* a run started by constrict_cli.py, whose cancel_event is `lambda: False`:
\* the predicate never turns true
NextCli ==
    \/ CheckInput
    \/ StatInput
    \/ Probe
    \/ Touch
    \/ InitLoop
    \/ LoopHead
    \/ Derive
    \/ TranscodeStart
    \/ Pass1Line
    \/ Pass1Exit
    \/ Pass2Start
    \/ Pass2Line
    \/ Pass2Exit
    \/ AfterTranscode
    \/ Measure
    \/ OutputVanishes

SpecCli == Init /\ [][NextCli]_vars

----------------------------------------------------------------------------
(* get_encode_settings called on its own *)

\* source frames as <<width, height>>: landscape, portrait, square, wider
\* than 16:9, smaller than the smallest preset (landscape and portrait), 4K,
\* between the 144p and the 240p preset
DeriveFrames ==
    { <<1920, 1080>>, <<1080, 1920>>, <<720, 720>>, <<864, 360>>,
      <<1280, 720>>, <<160, 120>>, <<120, 160>>, <<3840, 2160>>,
      <<256, 144>> }

DeriveFps == {15, 24, 30, 60}

DeriveDurations == {8, 64, 1024, 16384}

\* scale factors in increasing order; with a 25 MiB target and 1024 s the
\* fifth gives a target bitrate of 245999 bps and the sixth of 246000 bps
DeriveFactors ==
    << <<1, 4>>, <<1, 2>>, <<1, 1>>, <<8, 7>>, <<254921, 204800>>,
       <<127461, 102400>>, <<4, 1>> >>

DeriveCeilings == {None, 360, 720, 1280}

\* the arguments of one call
InitDerive ==
    /\ target_size_MiB \in TargetSizes
    /\ framerate_option \in FpsModes
    /\ \E size \in DeriveFrames : width = size[1] /\ height = size[2]
    /\ source_fps \in DeriveFps
    /\ duration_seconds \in DeriveDurations
    /\ \E i \in 1..Len(DeriveFactors) : factor = DeriveFactors[i]
    /\ force_crush \in BOOLEAN
    /\ lowest_res \in DeriveCeilings
    /\ pc = "call"
    /\ tolerance = 0
    /\ cancel = FALSE
    /\ result_kind = "running" /\ result_size = 0 /\ result_text = ""
    /\ before_size_bytes = 0
    /\ out_file = Absent /\ out_partial = FALSE
    /\ attempt = 0 /\ percent_of_target = <<200, 1>> /\ after_size_bytes = 0
    /\ target_video_bitrate = 0 /\ target_audio_bitrate = 0
    /\ target_height = 0 /\ target_width = 0 /\ target_fps = 0
    /\ res_reduction_applied = FALSE /\ is_hq_audio = FALSE
    /\ transcode_error = <<>> /\ lines_read = 0
    /\ log = <<>>
    /\ fault = "none"
    /\ killed_at = 0 /\ cancel_in_pass = 0
    /\ returned = <<>>
    /\ GuiIdle
    /\ ProgressIdle

\* encode_settings = get_encode_settings(...)
CallDerive ==
    /\ pc = "call"
    /\ LET s == get_encode_settings(target_size_MiB, framerate_option, width,
                                    height, source_fps, duration_seconds, factor,
                                    force_crush, lowest_res)
       IN  /\ target_video_bitrate' = s.video_bitrate
           /\ target_audio_bitrate' = s.audio_bitrate
           /\ target_height' = s.height
           /\ target_fps' = s.fps
           /\ res_reduction_applied' = s.res_reduction_applied
           /\ returned' = Append(returned, s)
    /\ pc' = "returned"
    /\ UNCHANGED <<progress, gui, inputs, cancel, outcome, source, outfile, loopvars,
                   target_width, is_hq_audio, encoder, log, fault, killed_at,
                   cancel_in_pass>>

\* the same call is made again with a larger factor and everything else as
\* it was
LargerFactor ==
    /\ pc = "returned"
    /\ Len(returned) < MaxCalls
    /\ \E i, j \in 1..Len(DeriveFactors) :
          /\ i < j
          /\ factor = DeriveFactors[i]
          /\ factor' = DeriveFactors[j]
    /\ pc' = "call"
    /\ UNCHANGED <<progress, gui, inputs, cancel, outcome, source, outfile, attempt,
                   percent_of_target, after_size_bytes, force_crush, lowest_res,
                   settings, encoder, log, fault, killed_at, cancel_in_pass,
                   returned>>

NextDerive ==
    \/ CallDerive
    \/ LargerFactor

SpecDerive == InitDerive /\ [][NextDerive]_vars

----------------------------------------------------------------------------
(* The windows: staging, exporting and the bulk_compress threads *)

\* bulk_compress threads alive at once that the model follows
MaxThreads == 2

\* rows one window's list takes
MaxVideos == 2

\* the folders the user picks in the folder dialog
Folders == {"out1", "out2"}

\* the folder dialog was dismissed: select_folder_finish gives no folder
NoFolder == "none"

\* refresh_can_export with rows that are neither BROKEN nor INCOMPATIBLE:
\* export is enabled unless the list is empty or every row is COMPLETE
CanExport(row_states) ==
    \E i \in 1..Len(row_states) : row_states[i] # "COMPLETE"

\* tmp_dir / f'constrict2pass-{self.get_id()}' when get_tmp_dir() gave a
\* directory, else Path(destination) / the same name
LogPath(tmp_dir, destination, id) ==
    IF tmp_dir THEN <<"tmp", id>> ELSE <<destination, id>>

\* the sequence without its i-th element
Without(seq, i) == SubSeq(seq, 1, i - 1) \o SubSeq(seq, i + 1, Len(seq))

\* the initial state of the application: windows with nothing staged; the
\* variables of compress stay as they are before a run
InitGui ==
    /\ GuiIdle
    /\ ProgressIdle
    /\ target_size_MiB = 25
    /\ framerate_option = "auto"
    /\ tolerance = 10
    /\ cancel = FALSE
    /\ pc = "start"
    /\ result_kind = "running" /\ result_size = 0 /\ result_text = ""
    /\ before_size_bytes = 0
    /\ width = 0 /\ height = 0 /\ source_fps = 0 /\ duration_seconds = 0
    /\ out_file = Absent /\ out_partial = FALSE
    /\ factor = <<1, 1>> /\ attempt = 0 /\ percent_of_target = <<200, 1>>
    /\ after_size_bytes = 0 /\ force_crush = FALSE /\ lowest_res = None
    /\ target_video_bitrate = 0 /\ target_audio_bitrate = 0
    /\ target_height = 0 /\ target_width = 0 /\ target_fps = 0
    /\ res_reduction_applied = FALSE /\ is_hq_audio = FALSE
    /\ transcode_error = <<>> /\ lines_read = 0
    /\ log = <<>>
    /\ fault = "none"
    /\ killed_at = 0 /\ cancel_in_pass = 0
    /\ returned = <<>>

compress_vars == <<inputs, cancel, pc, outcome, source, outfile, loopvars,
                   settings, encoder, log, fault, killed_at, cancel_in_pass,
                   returned, progress>>

\* on_drop / open_file_dialog's response: a video is staged, then
\* refresh_can_export(False); nothing here looks at self.compressing
stage_videos(w) ==
    /\ Len(rows[w]) < MaxVideos
    /\ rows' = [rows EXCEPT ![w] = Append(@, "PENDING")]
    /\ export_enabled' = [export_enabled EXCEPT ![w] = TRUE]
    /\ UNCHANGED <<compressing, folder_dialog, threads, compress_vars>>

\* the export action, when enabled, opens the folder dialog
export_file_dialog(w) ==
    /\ export_enabled[w]
    /\ ~folder_dialog[w]
    /\ folder_dialog' = [folder_dialog EXCEPT ![w] = TRUE]
    /\ UNCHANGED <<export_enabled, compressing, rows, threads, compress_vars>>

\* the dialog answers: without a folder nothing happens, with one a thread
\* running bulk_compress(folder_path, True) is started
on_export_response(w) ==
    /\ folder_dialog[w]
    /\ folder_dialog' = [folder_dialog EXCEPT ![w] = FALSE]
    /\ \E folder \in Folders \cup {NoFolder} :
          IF folder = NoFolder
          THEN UNCHANGED threads
          ELSE /\ Len(threads) < MaxThreads
               /\ threads' = Append(threads,
                                    [window |-> w, destination |-> folder,
                                     pc |-> "begin", i |-> 0, n |-> 0,
                                     log_path |-> <<>>])
    /\ UNCHANGED <<export_enabled, compressing, rows, compress_vars>>

\* bulk_compress up to its loop: set_controls_lock(True), compressing = True,
\* source_list = sources_list_box.get_all()
BulkBegin(t) ==
    /\ threads[t].pc = "begin"
    /\ LET w == threads[t].window
       IN  /\ export_enabled' = [export_enabled EXCEPT ![w] = FALSE]
           /\ compressing' = [compressing EXCEPT ![w] = TRUE]
           /\ threads' = [threads EXCEPT ![t].pc = "next", ![t].i = 1,
                                         ![t].n = Len(rows[w])]
    /\ UNCHANGED <<folder_dialog, rows, compress_vars>>

\* the head of the for loop: after the last row the controls are unlocked,
\* refresh_can_export runs, compressing = False and the thread ends; a
\* COMPLETE row is skipped; any other row is set COMPRESSING, the log path
\* is built and compress is called
BulkNext(t) ==
    /\ threads[t].pc = "next"
    /\ LET w == threads[t].window
           i == threads[t].i
       IN  IF i > threads[t].n
           THEN /\ export_enabled' = [export_enabled EXCEPT ![w] = CanExport(rows[w])]
                /\ compressing' = [compressing EXCEPT ![w] = FALSE]
                /\ threads' = Without(threads, t)
                /\ UNCHANGED rows
           ELSE IF rows[w][i] = "COMPLETE"
           THEN /\ threads' = [threads EXCEPT ![t].i = i + 1]
                /\ UNCHANGED <<export_enabled, compressing, rows>>
           ELSE /\ rows' = [rows EXCEPT ![w][i] = "COMPRESSING"]
                /\ \E tmp_dir \in BOOLEAN :
                      threads' = [threads EXCEPT
                                     ![t].pc = "compress",
                                     ![t].log_path = LogPath(tmp_dir,
                                                             threads[t].destination, w)]
                /\ UNCHANGED <<export_enabled, compressing>>
    /\ UNCHANGED <<folder_dialog, compress_vars>>

\* compress returns: with an error text the row is set to ERROR and the loop
\* goes on; else, when compressing is False, the row goes back to PENDING
\* and the loop is left; else the row is COMPLETE
BulkCompressReturns(t) ==
    /\ threads[t].pc = "compress"
    /\ LET w == threads[t].window
           i == threads[t].i
       IN  \E compress_error \in BOOLEAN :
              IF compress_error
              THEN /\ rows' = [rows EXCEPT ![w][i] = "ERROR"]
                   /\ threads' = [threads EXCEPT ![t].pc = "next", ![t].i = i + 1,
                                                 ![t].log_path = <<>>]
              ELSE IF ~compressing[w]
              THEN /\ rows' = [rows EXCEPT ![w][i] = "PENDING"]
                   /\ threads' = [threads EXCEPT ![t].pc = "next",
                                                 ![t].i = threads[t].n + 1,
                                                 ![t].log_path = <<>>]
              ELSE /\ rows' = [rows EXCEPT ![w][i] = "COMPLETE"]
                   /\ threads' = [threads EXCEPT ![t].pc = "next", ![t].i = i + 1,
                                                 ![t].log_path = <<>>]
    /\ UNCHANGED <<export_enabled, compressing, folder_dialog, compress_vars>>

\* the user answers "Stop" in the cancel dialog
on_cancel_response(w) ==
    /\ compressing[w]
    /\ compressing' = [compressing EXCEPT ![w] = FALSE]
    /\ UNCHANGED <<export_enabled, folder_dialog, rows, threads, compress_vars>>

NextGui ==
    \/ \E w \in Windows : stage_videos(w)
    \/ \E w \in Windows : export_file_dialog(w)
    \/ \E w \in Windows : on_export_response(w)
    \/ \E w \in Windows : on_cancel_response(w)
    \/ \E t \in 1..Len(threads) : BulkBegin(t)
    \/ \E t \in 1..Len(threads) : BulkNext(t)
    \/ \E t \in 1..Len(threads) : BulkCompressReturns(t)

SpecGui == InitGui /\ [][NextGui]_vars

----------------------------------------------------------------------------
(* The attempt loop of compress on its own, with an encoder that always
   returns and a cancel_event that never reads true *)

\* largest numerator and denominator of the factor the loop is followed to
MaxFactorTerm == 64

\* the factor is inside the range the loop is followed to
InRange(f) == f[1] <= MaxFactorTerm /\ f[2] <= MaxFactorTerm

\* compress has passed its checks and probes and stands before the loop
InitLive ==
    /\ target_size_MiB \in TargetSizes
    /\ framerate_option \in FpsModes
    /\ tolerance \in Tolerances
    /\ cancel = FALSE
    /\ pc = "loop"
    /\ result_kind = "running" /\ result_size = 0 /\ result_text = ""
    /\ before_size_bytes = 4 * target_size_bytes
    /\ \E src \in Sources :
          /\ width = src[1] /\ height = src[2]
          /\ source_fps = src[3] /\ duration_seconds = src[4]
    /\ out_file = 0 /\ out_partial = FALSE
    /\ factor = <<1, 1>> /\ attempt = 0 /\ percent_of_target = <<200, 1>>
    /\ after_size_bytes = 0 /\ force_crush = FALSE /\ lowest_res = None
    /\ target_video_bitrate = 0 /\ target_audio_bitrate = 0
    /\ target_height = 0 /\ target_width = 0 /\ target_fps = 0
    /\ res_reduction_applied = FALSE /\ is_hq_audio = FALSE
    /\ transcode_error = <<>> /\ lines_read = 0
    /\ log = <<>>
    /\ fault = "none"
    /\ killed_at = 0 /\ cancel_in_pass = 0
    /\ returned = <<>>
    /\ GuiIdle
    /\ ProgressIdle

\* the while test; the attempt number is counted up to MaxAttempts and
\* stays there for every later attempt
LiveLoopHead ==
    /\ pc = "loop"
    /\ IF ~LoopContinues(percent_of_target, tolerance)
       THEN /\ ReturnSize(after_size_bytes)
            /\ UNCHANGED attempt
       ELSE /\ attempt' = IF attempt < MaxAttempts THEN attempt + 1 ELSE attempt
            /\ Continue("derive")
    /\ UNCHANGED <<progress, gui, inputs, returned, cancel, source, outfile, factor,
                   percent_of_target, after_size_bytes, force_crush, lowest_res,
                   settings, encoder, log, fault, killed_at, cancel_in_pass>>

\* get_encode_settings, the bitrate floor and the output frame
LiveDerive ==
    /\ pc = "derive"
    /\ LET s == get_encode_settings(target_size_MiB, framerate_option, width,
                                    height, source_fps, duration_seconds, factor,
                                    force_crush, lowest_res)
           portrait == height > width
       IN  /\ target_video_bitrate' = s.video_bitrate
           /\ target_audio_bitrate' = s.audio_bitrate
           /\ target_fps' = s.fps
           /\ res_reduction_applied' = s.res_reduction_applied
           /\ is_hq_audio' = (s.audio_bitrate > 48000)
           /\ force_crush' = (force_crush \/ ~(s.audio_bitrate > 48000))
           /\ IF BitrateTooLow(s.video_bitrate)
              THEN /\ ReturnError(ErrBitrate)
                   /\ target_height' = s.height
                   /\ UNCHANGED target_width
              ELSE /\ target_width' = IF portrait THEN s.height
                                      ELSE ScaledEdge(width, height, s.height)
                   /\ target_height' = IF portrait
                                       THEN ScaledEdge(height, width, s.height)
                                       ELSE s.height
                   /\ Continue("transcode")
    /\ UNCHANGED <<progress, gui, inputs, returned, cancel, source, outfile, factor, attempt,
                   percent_of_target, after_size_bytes, lowest_res, encoder, log,
                   fault, killed_at, cancel_in_pass>>

\* transcode returns: an error text, which compress returns, or None with
\* the output file written
LiveTranscode ==
    /\ pc = "transcode"
    /\ \/ /\ \E text \in EncoderErrors : ReturnError(text)
          /\ out_file' \in PartialSizes
          /\ out_partial' = TRUE
       \/ /\ out_file' \in OutputSizes
          /\ out_partial' = FALSE
          /\ Continue("measure")
    /\ UNCHANGED <<progress, gui, inputs, returned, cancel, source, loopvars, settings,
                   encoder, log, fault, killed_at, cancel_in_pass>>

\* os.stat(file_output), percent_of_target, the early exit, the resolution
\* ceiling and the new factor; a factor outside the range ends the part of
\* the run that is followed
LiveMeasure ==
    /\ pc = "measure"
    /\ LET percent == RatMul(Rat(100, target_size_bytes), <<out_file, 1>>)
       IN  /\ after_size_bytes' = out_file
           /\ percent_of_target' = percent
           /\ IF EarlyExit(res_reduction_applied, percent)
              THEN /\ ReturnSize(out_file)
                   /\ UNCHANGED <<lowest_res, factor>>
              ELSE /\ lowest_res' = IF RecordsCeiling(percent)
                                    THEN target_height ELSE lowest_res
                   /\ factor' = NextFactor(factor, percent)
                   /\ Continue(IF InRange(NextFactor(factor, percent))
                               THEN "loop" ELSE "beyond")
    /\ UNCHANGED <<progress, gui, inputs, returned, cancel, source, outfile, attempt,
                   force_crush, settings, encoder, log, fault, killed_at,
                   cancel_in_pass>>

NextLive ==
    \/ LiveLoopHead
    \/ LiveDerive
    \/ LiveTranscode
    \/ LiveMeasure

\* the positions of the loop, and those at which the run goes on
LivePositions == {"loop", "derive", "transcode", "measure", "done", "beyond"}

\* the run moves on from a position at which it has not ended; every step
\* of NextLive does so, and one is possible at each such position
LiveStep ==
    /\ pc \in LivePositions \ {"done", "beyond"}
    /\ pc' \in LivePositions
    /\ pc' # pc

\* the thread running compress keeps being scheduled and every encoder
\* process ends: a run that has not ended takes its next step
SpecLive == InitLive /\ [][NextLive]_vars /\ WF_pc(LiveStep)

----------------------------------------------------------------------------
(* The progress fractions of one attempt: get_frame_count, the estimate of
   the destination frame count, and get_progress in the two passes *)

\* the largest packet count of a source
MaxFrames == 4

Codecs == {"H264", "HEVC", "AV1", "VP9"}

\* the ceilings get_encode_settings can set on the frame rate
MaxFpsValues == {24, 30, 60}

\* total_frames = frame_count * (1 if pass_num is None else 2)
\* current_frame = frame_count * (pass_num or 0) + frame
\* progress_fraction = current_frame / total_frames
ProgressFraction(count, pass, current) ==
    LET total_frames == count * (IF pass = NoPass THEN 1 ELSE 2)
        current_frame == count * (IF pass = NoPass THEN 0 ELSE pass) + current
    IN  Rat(current_frame, total_frames)

\* None if codec == VideoCodec.VP9 and not use_ha else <pass>
PassNum(video_codec, ha, pass) ==
    IF video_codec = "VP9" /\ ~ha THEN NoPass ELSE pass

\* int(source_frame_count // (source_fps / target_fps)) or 1
DestFrameCount(count, fps, new_fps) ==
    LET estimate == Floor(RatDiv(<<count, 1>>, Rat(fps, new_fps)))
    IN  IF estimate = 0 THEN 1 ELSE estimate

\* the frames the encoder writes for a source of so many packets: the
\* estimate made from the true packet count
EncodedFrames == DestFrameCount(nb_read_packets, source_fps, target_fps)

\* compress is called for a source of some packet count and frame rate; the
\* frame rate of the output is the source's, clamped to a ceiling
InitProgress ==
    /\ GuiIdle
    /\ codec \in Codecs /\ can_ha \in BOOLEAN
    /\ nb_read_packets \in 1..MaxFrames
    /\ source_fps \in DeriveFps
    /\ \E max_fps \in MaxFpsValues : target_fps = ClampFps(source_fps, max_fps)
    /\ source_frame_count = 0 /\ frame_count = 0
    /\ pass_num = NoPass /\ frame = 0
    /\ progress_fraction = <<0, 1>>
    /\ pc = "start"
    /\ target_size_MiB = 25
    /\ framerate_option = "auto"
    /\ tolerance = 10
    /\ cancel = FALSE
    /\ result_kind = "running" /\ result_size = 0 /\ result_text = ""
    /\ before_size_bytes = 0
    /\ width = 0 /\ height = 0 /\ duration_seconds = 0
    /\ out_file = Absent /\ out_partial = FALSE
    /\ factor = <<1, 1>> /\ attempt = 0 /\ percent_of_target = <<200, 1>>
    /\ after_size_bytes = 0 /\ force_crush = FALSE /\ lowest_res = None
    /\ target_video_bitrate = 0 /\ target_audio_bitrate = 0
    /\ target_height = 0 /\ target_width = 0
    /\ res_reduction_applied = FALSE /\ is_hq_audio = FALSE
    /\ transcode_error = <<>> /\ lines_read = 0
    /\ log = <<>>
    /\ fault = "none"
    /\ killed_at = 0 /\ cancel_in_pass = 0
    /\ returned = <<>>

progress_rest == <<inputs, cancel, outcome, source, outfile, loopvars, settings,
                   encoder, log, fault, killed_at, cancel_in_pass, returned, gui>>

\* output_fn(0, None) at the start of compress
ProgressStart ==
    /\ pc = "start"
    /\ progress_fraction' = <<0, 1>>
    /\ pc' = "frame_count"
    /\ UNCHANGED <<codec, can_ha, nb_read_packets, source_frame_count,
                   frame_count, pass_num, frame, progress_rest>>

\* get_frame_count: int() of what ffprobe printed, 1 when that is not a
\* number
get_frame_count ==
    /\ pc = "frame_count"
    /\ \/ source_frame_count' = nb_read_packets
       \/ source_frame_count' = 1
    /\ pc' = "estimate"
    /\ UNCHANGED <<codec, can_ha, nb_read_packets, frame_count, pass_num,
                   frame, progress_fraction, progress_rest>>

\* dest_frame_count is computed and transcode calls get_progress for pass 1
ProgressPass1 ==
    /\ pc = "estimate"
    /\ frame_count' = DestFrameCount(source_frame_count, source_fps, target_fps)
    /\ pass_num' = PassNum(codec, can_ha, 0)
    /\ frame' = 0
    /\ pc' = "progress1"
    /\ UNCHANGED <<codec, can_ha, nb_read_packets, source_frame_count,
                   progress_fraction, progress_rest>>

\* a "frame=" line: the encoder has written one more frame
FrameLine ==
    /\ pc \in {"progress1", "progress2"}
    /\ frame < EncodedFrames
    /\ frame' = frame + 1
    /\ UNCHANGED <<pc, codec, can_ha, nb_read_packets, source_frame_count,
                   frame_count, pass_num, progress_fraction, progress_rest>>

\* a "fps=" line: output_fn(progress_fraction, seconds_left)
FpsLine ==
    /\ pc \in {"progress1", "progress2"}
    /\ progress_fraction' = ProgressFraction(frame_count, pass_num, frame)
    /\ UNCHANGED <<pc, codec, can_ha, nb_read_packets, source_frame_count,
                   frame_count, pass_num, frame, progress_rest>>

\* pass 1 has exited with return code 0; get_progress is called for pass 2
ProgressPass2 ==
    /\ pc = "progress1"
    /\ pass_num' = PassNum(codec, can_ha, 1)
    /\ frame' = 0
    /\ pc' = "progress2"
    /\ UNCHANGED <<codec, can_ha, nb_read_packets, source_frame_count,
                   frame_count, progress_fraction, progress_rest>>

\* pass 2 has exited
ProgressEnd ==
    /\ pc = "progress2"
    /\ pc' = "progress_done"
    /\ UNCHANGED <<progress, progress_rest>>

NextProgress ==
    \/ ProgressStart
    \/ get_frame_count
    \/ ProgressPass1
    \/ FrameLine
    \/ FpsLine
    \/ ProgressPass2
    \/ ProgressEnd

SpecProgress == InitProgress /\ [][NextProgress]_vars

----------------------------------------------------------------------------
(* Properties *)

Logged(call) == \E i \in 1..Len(log) : log[i] = call

LastLogged(call) == Len(log) > 0 /\ log[Len(log)] = call

\* percent lies in [100 - tol, 100]
InBand(percent, tol) ==
    /\ ~RatLess(percent, <<100 - tol, 1>>)
    /\ ~RatLess(<<100, 1>>, percent)

Ended == pc = "done"

\* C1, as stated: a run returns an integer if and only if the
\* percent_of_target measured after its final attempt lies in
\* [100 - tolerance, 100].
C1_BandOnly ==
    Ended =>
        (result_kind = "size" <=>
            /\ LastLogged(<<"measure", attempt>>)
            /\ InBand(percent_of_target, tolerance))

\* C1, amended: a run returns an integer if and only if, after the
\* measurement of its final attempt, either percent_of_target is above zero
\* and lies in [100 - tolerance, 100], or the resolution of that attempt was
\* clamped by the ceiling and percent_of_target is below 100.
C1_BandOrEarlyExit ==
    Ended =>
        (result_kind = "size" <=>
            /\ LastLogged(<<"measure", attempt>>)
            /\ \/ /\ InBand(percent_of_target, tolerance)
                  /\ percent_of_target[1] # 0
               \/ /\ res_reduction_applied
                  /\ RatLess(percent_of_target, <<100, 1>>))

\* a run that ended with a size below the band, by the early exit
C1_Witness ==
    /\ Ended
    /\ result_kind = "size"
    /\ res_reduction_applied
    /\ RatLess(percent_of_target, <<100 - tolerance, 1>>)
    /\ result_size > 0

\* C2: an integer returned by compress is the last measured size and is at
\* most the target size in bytes.
C2_NeverAboveTarget ==
    result_kind = "size" =>
        /\ result_size = after_size_bytes
        /\ result_size <= target_size_bytes

\* an output of exactly the target size is accepted after a rejected attempt
C2_Witness ==
    /\ result_kind = "size"
    /\ attempt >= 2
    /\ result_size = target_size_bytes

\* C3: once the video bitrate derived for an attempt is below 5000 bps the
\* run has ended with the bitrate error and transcode was not invoked for
\* that attempt.
C3_BitrateFloorAborts ==
    (attempt > 0 /\ pc # "derive" /\ target_video_bitrate < 5000) =>
        /\ Ended
        /\ result_kind = "error"
        /\ result_text = ErrBitrate
        /\ ~Logged(<<"transcode", attempt>>)
        /\ LastLogged(<<"on_new_attempt", attempt>>)

\* the floor is hit by the second or a later attempt
C3_Witness ==
    /\ Ended
    /\ attempt >= 2
    /\ target_video_bitrate < 5000
    /\ result_text = ErrBitrate

\* C4, as stated: once the cancel predicate has become true during an encoder
\* pass of attempt N, the encoder is killed when the pass is left, compress
\* returns None and nothing else, and no attempt after N starts.
C4_CancelInPassEndsRun ==
    cancel_in_pass # 0 =>
        /\ pc \notin {"pass1", "pass2"} => killed_at = cancel_in_pass
        /\ result_kind \in {"running", "cancelled"}
        /\ attempt = cancel_in_pass
        /\ ~Logged(<<"on_attempt_fail", cancel_in_pass>>)

\* C5, as stated: once get_progress has read the cancel predicate true and
\* killed the encoder in attempt N, the output of attempt N is never
\* measured, the factor and the ceiling are not updated from it, and no size
\* is returned.
C5_KilledEncodeNeverMeasured ==
    killed_at # 0 =>
        /\ ~Logged(<<"measure", killed_at>>)
        /\ attempt = killed_at
        /\ result_kind # "size"

\* C6: when transcode has returned an error text the run ends at once with
\* exactly that text; nothing is measured and no call follows the transcode.
C6_EncoderErrorVerbatim ==
    transcode_error # <<>> =>
        /\ pc \in {"after_transcode", "done"}
        /\ Ended => (result_kind = "error" /\ result_text = transcode_error[1])
        /\ ~Logged(<<"measure", attempt>>)
        /\ LastLogged(<<"transcode", attempt>>)

\* the (empty) error text is returned although the cancel predicate is true
C6_Witness ==
    /\ Ended
    /\ transcode_error = <<"">>
    /\ result_kind = "error"
    /\ cancel

\* C7, as stated: no run ends by an exception leaving compress.
C7_NoException ==
    result_kind # "exception"

\* C8: an input file that is not larger than the target makes compress
\* return "already meets the target size" with no derive call, no callback,
\* no transcode and no output file.
C8_AlreadyMeetsTarget ==
    (before_size_bytes # 0 /\ before_size_bytes <= target_size_bytes) =>
        /\ Ended
        /\ result_kind = "error"
        /\ result_text = ErrAlreadyMeets
        /\ log = <<>>
        /\ attempt = 0
        /\ out_file = Absent

\* the input is exactly as large as the target
C8_Witness ==
    /\ Ended
    /\ before_size_bytes = target_size_bytes
    /\ result_text = ErrAlreadyMeets

InputFaults == {"input missing", "probe failed", "output exists", "no permission"}

InputErrorText(f) ==
    CASE f = "input missing" -> ErrInput
      [] f = "probe failed" -> ErrProbe
      [] f = "output exists" -> ErrExists
      [] f = "no permission" -> ErrPermission

C10_OutputMissingIsTerminal ==
    fault = "output missing" =>
        /\ Ended
        /\ result_kind = "error"
        /\ result_text = ErrOutput
        /\ result_text \notin EncoderErrors \cup {ErrBitrate}
        /\ transcode_error = <<>>
        /\ LastLogged(<<"transcode", attempt>>)

\* the output of the second attempt is gone when measured
C10_Witness ==
    /\ Ended
    /\ fault = "output missing"
    /\ attempt = 2
    /\ killed_at = 0 /\ cancel_in_pass = 0 /\ ~cancel

\* the preset height of the attempt just derived: get_encode_settings returns
\* the short edge of the output frame
DerivedPreset == IF height > width THEN target_width ELSE target_height

\* a step in which compress leaves the call of get_encode_settings
DeriveStep == pc = "derive" /\ pc' # "derive"

\* C11, as stated: once lowest_res is set, no step of the run gives it a
\* greater value than it had, for landscape, square and portrait sources.
C11_CeilingNeverRaised ==
    [][lowest_res # None => lowest_res' <= lowest_res]_vars

\* C12, as stated: when a ceiling R has been recorded, every later attempt
\* derives a preset height of at most R, and the height of the frame it
\* encodes is not above the one of the attempt that recorded R.
C12_LaterAttemptsWithinCeiling ==
    [][(DeriveStep /\ pc' = "transcode" /\ lowest_res # None) =>
            /\ DerivedPreset' <= lowest_res
            /\ target_height' <= lowest_res]_vars

\* C13: force_crush never goes back to false; an attempt that derives the
\* crushed audio bitrate sets it; and every attempt derived while it is true
\* gets the crushed audio bitrate and at most 24 fps.
C13_CrushRatchet ==
    [][/\ force_crush => force_crush'
       /\ DeriveStep =>
            /\ target_audio_bitrate' = 6000 => force_crush'
            /\ force_crush => /\ target_audio_bitrate' = 6000
                              /\ target_fps' <= 24]_vars

\* a later attempt is encoded with crushed audio although its target bitrate
\* alone is at or above the 246000 bps threshold
C13_Witness ==
    /\ pc = "transcode"
    /\ attempt >= 2
    /\ force_crush
    /\ target_audio_bitrate = 6000
    /\ target_video_bitrate + target_audio_bitrate >= 246000
    /\ ~cancel /\ killed_at = 0

\* get_encode_settings has returned to a caller other than compress
Returned == pc = "returned"

\* the result of the latest call
LastReturned == returned[Len(returned)]

\* C14, as stated: the height returned by get_encode_settings is at most the
\* height of the source, for every source frame, bitrate, policy and ceiling.
C14_NoUpscaleHeight ==
    Returned => target_height <= height

\* C15: the framerate returned by get_encode_settings is at most the
\* framerate of the source, in every policy and in crush mode.
C15_NoUpscaleFps ==
    Returned => target_fps <= source_fps

\* a 15 fps source under the 24 fps ceiling of crush mode keeps its 15 fps
C15_Witness ==
    /\ Returned
    /\ source_fps = 15
    /\ target_audio_bitrate = 6000
    /\ target_fps = 15

\* C16, as stated: of two calls that differ only in the factor, the one with
\* the larger factor never returns the smaller video bitrate.
C16_VideoBitrateMonotone ==
    \A i, j \in 1..Len(returned) :
        i < j => returned[i].video_bitrate <= returned[j].video_bitrate

\* C16, amended: of two calls that differ only in the factor, the one with
\* the larger factor never returns the smaller total (video plus audio)
\* bitrate, and never the smaller video bitrate when both return the same
\* audio bitrate.
C16_TotalBitrateMonotone ==
    \A i, j \in 1..Len(returned) :
        i < j =>
            /\ returned[i].video_bitrate + returned[i].audio_bitrate
                  <= returned[j].video_bitrate + returned[j].audio_bitrate
            /\ returned[i].audio_bitrate = returned[j].audio_bitrate
                  => returned[i].video_bitrate <= returned[j].video_bitrate

\* the larger factor leaves crush mode and returns a smaller video bitrate
C16_Witness ==
    /\ Returned
    /\ Len(returned) >= 2
    /\ returned[1].audio_bitrate = 6000
    /\ LastReturned.audio_bitrate = 96000
    /\ LastReturned.video_bitrate < returned[1].video_bitrate

\* the compensated target bitrate of the call just made
TargetBitrate ==
    CompensatedBitrate(target_size_MiB * 1024 * 1024 * 8, duration_seconds, factor)

\* C17: without force_crush the crushed audio bitrate is returned exactly
\* when the compensated target bitrate is below 246000 bps, so not at 246000
\* and yes at 245999; with force_crush it is returned for every bitrate.
C17_CrushBoundary ==
    Returned =>
        /\ target_audio_bitrate \in {6000, 96000}
        /\ target_audio_bitrate = 6000 <=> (force_crush \/ TargetBitrate < 246000)
        /\ target_video_bitrate = TargetBitrate - target_audio_bitrate

\* 245999 bps was crushed and, with the next factor, 246000 bps is not
C17_Witness ==
    /\ Returned
    /\ ~force_crush
    /\ Len(returned) >= 2
    /\ returned[Len(returned) - 1].audio_bitrate = 6000
    /\ returned[Len(returned) - 1].video_bitrate = 245999 - 6000
    /\ TargetBitrate = 246000
    /\ target_audio_bitrate = 96000

\* the presets looked up for the returned video bitrate at 30 and at 60 fps
Preset30 == get_res_preset(target_video_bitrate, width, height, 30)

Preset60 == get_res_preset(target_video_bitrate, width, height, 60)

\* C18: under AUTO and outside crush mode the framerate ceiling is 60 when
\* the presets looked up at 30 and at 60 fps are equal and at least 720, and
\* 30 in every other case; the source framerate is cut to that ceiling.
C18_AutoFpsCeiling ==
    (Returned /\ framerate_option = "AUTO" /\ target_audio_bitrate = 96000) =>
        LET ceiling == IF Preset30 = Preset60 /\ Preset30 >= 720 THEN 60 ELSE 30
        IN  target_fps = IF source_fps <= ceiling THEN source_fps ELSE ceiling

\* a 60 fps source: 720p at 30 fps against 480p at 60 fps gave 30 fps, and
\* with a larger factor both lookups give 1080p and 60 fps is kept
C18_Witness ==
    /\ Returned
    /\ framerate_option = "AUTO"
    /\ source_fps = 60
    /\ ~force_crush
    /\ Len(returned) >= 2
    /\ returned[1].height = 720 /\ returned[1].fps = 30
    /\ get_res_preset(returned[1].video_bitrate, width, height, 60) = 480
    /\ Preset30 = 1080 /\ Preset60 = 1080
    /\ target_fps = 60

\* the calls that begin an attempt or run its encoder
AttemptCalls == {"get_encode_settings", "on_new_attempt", "transcode"}

\* C19: whenever a call is made, what must precede it has been made: every
\* call of attempt N+1 (get_encode_settings, on_new_attempt, transcode)
\* comes after the measurement of attempt N's output, every measurement
\* comes after the transcode of its attempt, and no attempt is transcoded
\* twice.
C19_AttemptsSequential ==
    [][\A i \in (Len(log) + 1)..Len(log') :
          /\ (log'[i][1] \in AttemptCalls /\ log'[i][2] >= 2) =>
                  Logged(<<"measure", log'[i][2] - 1>>)
          /\ log'[i][1] = "measure" => Logged(<<"transcode", log'[i][2]>>)
          /\ log'[i][1] = "transcode" => ~Logged(log'[i])]_vars

\* the encoder of the third attempt is running
C19_Witness ==
    /\ pc = "pass2"
    /\ attempt = 3
    /\ LastLogged(<<"transcode", 3>>)
    /\ Logged(<<"measure", 2>>)

C21_EarlyExitEndsRun ==
    [][/\ (/\ pc = "measure" /\ pc' # "measure"
           /\ out_file # Absent
           /\ res_reduction_applied
           /\ RatLess(percent_of_target', <<100, 1>>))
          => /\ pc' = "done"
             /\ result_kind' = "size"
             /\ result_size' = out_file
             /\ after_size_bytes' = out_file
             /\ lowest_res' = lowest_res
             /\ factor' = factor
             /\ attempt' = attempt
             /\ log' = Append(log, <<"measure", attempt>>)
       /\ pc = "done" => (pc' = "done" /\ attempt' = attempt /\ log' = log)]_vars

\* a run of tolerance 10 ended by the early exit below 90 percent, with the
\* ceiling and the factor of the attempt before
C21_Witness ==
    /\ Ended
    /\ result_kind = "size"
    /\ tolerance = 10
    /\ attempt >= 2
    /\ res_reduction_applied
    /\ target_height = lowest_res
    /\ RatLess(percent_of_target, <<90, 1>>)
    /\ result_size = after_size_bytes
    /\ LastLogged(<<"measure", attempt>>)
    /\ RatLess(<<1, 1>>, factor)

\* C22: any two compression runs that execute at the same time, in
\* different windows or in the same window, use different paths for their
\* two-pass log file.
C22_DistinctLogPaths ==
    \A s, t \in 1..Len(threads) :
        (s # t /\ threads[s].pc = "compress" /\ threads[t].pc = "compress")
            => threads[s].log_path # threads[t].log_path

\* C23: when every transcode call returns, a run reaches a terminal outcome:
\* the attempt loop does not go on forever with results outside the band.
\* (A run whose factor leaves the range the loop is followed to counts as
\* ended here, so only a loop that repeats inside the range refutes this.)
C23_RunEnds ==
    <>(pc = "done" \/ pc = "beyond")

\* the framerate whose table get_encode_settings took the returned height from
LookupFps ==
    IF framerate_option = "AUTO" /\ target_audio_bitrate = 96000
    THEN 30 ELSE target_fps

\* the table of a framerate class
TableOf(fr) == IF fr <= 30 THEN bitrate_res_map_30 ELSE bitrate_res_map_60

\* the tiers of a table whose floor is at most the returned video bitrate in
\* kbps and whose frame has at most the pixels of the source
Admitted(table) ==
    {i \in 1..Len(table) :
        /\ 1000 * table[i][1] <= target_video_bitrate
        /\ table[i][2] * table[i][3] <= width * height}

\* the first of a non-empty set of tiers
FirstOf(tiers) == CHOOSE i \in tiers : \A j \in tiers : i <= j

\* floors fall from each tier to the next and the last floor is zero
DescendingToZero(table) ==
    /\ \A i \in 1..(Len(table) - 1) : table[i][1] > table[i + 1][1]
    /\ table[Len(table)][1] = 0

\* C24: get_res_preset takes the table of the framerate class (at most 30
\* fps, or above) and returns the height of the first tier, from the highest
\* floor down, whose floor is at most the bitrate in kbps and whose pixel
\* count is at most that of the source; both tables are strictly descending
\* by floor and end in a zero floor.
C24_FirstMatchingTier ==
    /\ DescendingToZero(bitrate_res_map_30)
    /\ DescendingToZero(bitrate_res_map_60)
    /\ Returned =>
          /\ \A fr \in DeriveFps :
                LET table == TableOf(fr)
                IN  Admitted(table) # {} =>
                        get_res_preset(target_video_bitrate, width, height, fr)
                            = table[FirstOf(Admitted(table))][3]
          /\ (Admitted(TableOf(LookupFps)) # {} /\ ~res_reduction_applied) =>
                target_height
                    = TableOf(LookupFps)[FirstOf(Admitted(TableOf(LookupFps)))][3]

\* a 1280x720 source at 60 fps with a bitrate above the 1080p floor of the
\* 60 fps table: the tiers above 720p are passed over for their pixel count
C24_Witness ==
    /\ Returned
    /\ width = 1280 /\ height = 720
    /\ target_fps = 60
    /\ framerate_option = "PREFER_SMOOTH"
    /\ target_video_bitrate >= 3000000
    /\ ~res_reduction_applied
    /\ target_height = 720

\* no tier of the table looked up admits the returned bitrate and the source
NoTier == Admitted(TableOf(LookupFps)) = {}

\* C25, as stated: when no tier matches, get_res_preset returns the long
\* edge of the source, the larger of its width and height.
C25_FallbackLongEdge ==
    (Returned /\ NoTier /\ ~res_reduction_applied) =>
        target_height = IF width > height THEN width ELSE height

\* C25, amended: when no tier matches, get_res_preset returns the short edge
\* of the source, the smaller of its width and height.
C25_FallbackShortEdge ==
    (Returned /\ NoTier) =>
        LET short == IF width < height THEN width ELSE height
        IN  /\ get_res_preset(target_video_bitrate, width, height, LookupFps) = short
            /\ ~res_reduction_applied => target_height = short

\* a portrait source of 120x160, smaller than the 192x144 frame of the
\* lowest tier, gets its width
C25_Witness ==
    /\ Returned
    /\ width = 120 /\ height = 160
    /\ target_video_bitrate > 0
    /\ NoTier
    /\ ~res_reduction_applied
    /\ target_height = 120

\* C26: get_encode_settings returns res_reduction_applied true exactly when
\* a ceiling is set and the height from the preset table is above it, and
\* then the returned height is the ceiling; otherwise the flag is false and
\* the returned height is the height from the preset table.
C26_ClampExactlyAboveCeiling ==
    Returned =>
        LET preset == get_res_preset(target_video_bitrate, width, height, LookupFps)
        IN  /\ LastReturned.res_reduction_applied
                <=> (lowest_res # None /\ preset > lowest_res)
            /\ LastReturned.height
                = IF LastReturned.res_reduction_applied THEN lowest_res ELSE preset

\* one call clamped from 1080 to a ceiling of 720, after one whose preset
\* was equal to the ceiling and was returned unflagged
C26_Witness ==
    /\ Returned
    /\ lowest_res = 720
    /\ Len(returned) = 2
    /\ returned[1].height = 720 /\ ~returned[1].res_reduction_applied
    /\ returned[2].height = 720 /\ returned[2].res_reduction_applied
    /\ get_res_preset(target_video_bitrate, width, height, LookupFps) = 1080

\* a step in which compress leaves the measurement of an attempt's output
MeasureStep == pc = "measure" /\ pc' # "measure" /\ out_file # Absent

\* C27: the ceiling is recorded only after an attempt whose measured output
\* is above 50 percent of the target and that did not end the run by the
\* early exit; the value recorded is the height of that attempt's output; an
\* attempt at or below 50 percent leaves the ceiling as it was.
C27_CeilingRecordedAboveHalf ==
    [][/\ lowest_res' # lowest_res =>
             /\ MeasureStep
             /\ RatLess(<<50, 1>>, percent_of_target')
             /\ ~(res_reduction_applied /\ RatLess(percent_of_target', <<100, 1>>))
       /\ (MeasureStep /\ RatLess(<<50, 1>>, percent_of_target')
             /\ ~(res_reduction_applied /\ RatLess(percent_of_target', <<100, 1>>)))
          => lowest_res' = target_height
       /\ (MeasureStep /\ ~RatLess(<<50, 1>>, percent_of_target'))
          => lowest_res' = lowest_res]_vars

\* the second attempt came out below 50 percent and the ceiling is still
\* the height of the first, above the height of the second
C27_Witness ==
    /\ pc = "loop"
    /\ attempt = 2
    /\ LastLogged(<<"measure", 2>>)
    /\ RatLess(percent_of_target, <<50, 1>>)
    /\ lowest_res # None
    /\ lowest_res > target_height
    /\ ~cancel /\ killed_at = 0

\* C28: after an attempt measured above 100 percent that does not end the
\* run, the factor is multiplied by 0.98 * (100 / percent) and is smaller
\* than before, and the next attempt asks for a total bitrate that is not
\* larger.
C28_OvershootLowersFactor ==
    [][/\ (MeasureStep /\ pc' = "loop" /\ RatLess(<<100, 1>>, percent_of_target'))
          => /\ factor' = RatMul(factor, RatMul(<<49, 50>>,
                                 RatDiv(<<100, 1>>, percent_of_target')))
             /\ RatLess(factor', factor)
       /\ (DeriveStep /\ attempt >= 2 /\ RatLess(<<100, 1>>, percent_of_target))
          => target_video_bitrate' + target_audio_bitrate'
                <= target_video_bitrate + target_audio_bitrate]_vars

\* the second attempt of a run whose first came out at 196 percent: half
\* the factor and less than half the total bitrate of the first
C28_Witness ==
    /\ pc = "transcode"
    /\ attempt = 2
    /\ LastLogged(<<"on_new_attempt", 2>>)
    /\ percent_of_target = <<196, 1>>
    /\ factor = <<1, 2>>
    /\ duration_seconds = 128
    /\ target_video_bitrate + target_audio_bitrate = 790528
    /\ ~cancel /\ killed_at = 0

\* C29: after an attempt rejected for coming out below 100 - tolerance
\* percent, the factor is greater than before, for every tolerance, so that
\* the next attempt never asks for a lower or an equal total bitrate.
C29_UndershootRaisesFactor ==
    [][/\ (MeasureStep /\ pc' = "loop"
             /\ RatLess(percent_of_target', <<100 - tolerance, 1>>))
          => RatLess(factor, factor')
       /\ (DeriveStep /\ attempt >= 2
             /\ RatLess(percent_of_target, <<100 - tolerance, 1>>))
          => target_video_bitrate' + target_audio_bitrate'
                > target_video_bitrate + target_audio_bitrate]_vars

\* C30: the framerate ceiling is 24 whenever crush mode is active, whatever
\* the policy; outside crush mode it is 30 for PREFER_CLEAR and 60 for
\* PREFER_SMOOTH; the returned framerate is the smaller of the source
\* framerate and the ceiling.
C30_FpsCeiling ==
    Returned =>
        LET crush == LastReturned.audio_bitrate = 6000
            ceiling == IF crush THEN 24
                       ELSE IF framerate_option = "PREFER_CLEAR" THEN 30
                       ELSE 60
        IN  (crush \/ framerate_option # "AUTO") =>
                LastReturned.fps
                    = IF source_fps < ceiling THEN source_fps ELSE ceiling

\* a 60 fps source under PREFER_SMOOTH in crush mode is cut to 24 fps
C30_Witness ==
    /\ Returned
    /\ framerate_option = "PREFER_SMOOTH"
    /\ source_fps = 60
    /\ LastReturned.audio_bitrate = 6000
    /\ LastReturned.fps = 24

\* an attempt has its settings and its output is not yet measured: the
\* factor is still the one the settings were derived with
InAttempt ==
    pc \in {"transcode", "pass1", "pass2_check", "pass2", "after_transcode", "measure"}

\* C31: in every attempt of every run the audio bitrate is 6000 bps (crush
\* mode) or 96000 bps (otherwise) and nothing else, and the video bitrate is
\* the compensated target bitrate less that audio bitrate.
C31_TwoAudioBitrates ==
    InAttempt =>
        /\ target_audio_bitrate \in {6000, 96000}
        /\ target_audio_bitrate = 6000 <=> force_crush
        /\ target_audio_bitrate = 96000 => TargetBitrate >= 246000
        /\ target_video_bitrate = TargetBitrate - target_audio_bitrate

\* a third attempt in crush mode after a first attempt outside it
C31_Witness ==
    /\ pc = "transcode"
    /\ attempt = 3
    /\ target_audio_bitrate = 6000
    /\ TargetBitrate >= 246000
    /\ target_video_bitrate = TargetBitrate - 6000
    /\ ~cancel /\ killed_at = 0

Pass2Spawned == pc = "pass2_check" /\ pc' = "pass2"

\* C33: within one call of transcode pass 2 is started only after pass 1
\* exited with return code 0 and was not killed for a cancellation: after a
\* pass-1 error, or a cancellation seen during pass 1, pass 2 never starts.
C33_Pass2OnlyAfterCleanPass1 ==
    [][Pass2Spawned => transcode_error = <<>> /\ killed_at # attempt]_vars

\* get_progress passes a fraction to output_fn
Delivers ==
    pc \in {"progress1", "progress2"} /\ progress_fraction' # progress_fraction

\* x lies in [lo, hi]
Between(lo, x, hi) == ~RatLess(x, lo) /\ ~RatLess(hi, x)

\* C34: every fraction delivered to the progress callback lies in [0, 1],
\* in the first half during pass 1 and in the second half during pass 2
\* where the passes are numbered, for every frame number the encoder reports
\* and every estimate of the destination frame count.
C34_FractionInUnitInterval ==
    [][Delivers =>
          /\ Between(<<0, 1>>, progress_fraction', <<1, 1>>)
          /\ pass_num = 0 => Between(<<0, 1>>, progress_fraction', <<1, 2>>)
          /\ pass_num = 1 => Between(<<1, 2>>, progress_fraction', <<1, 1>>)]_vars

\* compress returns or raises
Ends == pc # "done" /\ pc' = "done"

\* C35: on_new_attempt is called with 1, 2, 3, ... in that order, without
\* gaps or repeats; on_attempt_fail(k) is called once, after the size of
\* attempt k has been measured and not accepted and before
\* on_new_attempt(k+1); it is never called for the attempt that ends the run.
C35_CallbackOrder ==
    [][/\ \A i \in (Len(log) + 1)..Len(log') :
             LET k == log'[i][2] IN
             /\ log'[i][1] = "on_new_attempt" =>
                   /\ ~Logged(log'[i])
                   /\ k = 1 \/ Logged(<<"on_new_attempt", k - 1>>)
                   /\ k = 1 \/ Logged(<<"on_attempt_fail", k - 1>>)
                   /\ ~Logged(<<"on_new_attempt", k + 1>>)
             /\ log'[i][1] = "on_attempt_fail" =>
                   /\ ~Logged(log'[i])
                   /\ k >= 1
                   /\ Logged(<<"measure", k>>)
                   /\ ~InBand(percent_of_target, tolerance)
                   /\ ~Logged(<<"on_new_attempt", k + 1>>)
       /\ Ends => \A i \in 1..Len(log') :
                     log'[i] # <<"on_attempt_fail", attempt'>>]_vars

\* the third attempt is announced after two failures were reported
C35_Witness ==
    /\ pc = "transcode"
    /\ attempt = 3
    /\ LastLogged(<<"on_new_attempt", 3>>)
    /\ Logged(<<"on_attempt_fail", 1>>)
    /\ Logged(<<"on_attempt_fail", 2>>)
    /\ ~Logged(<<"on_attempt_fail", 3>>)

\* compress returns an integer; in the first attempt the one transcode of
\* the run has completed when the output file is not a partial one
ReturnsSize == Ends /\ result_kind' = "size"

\* C36: compress returns an integer only after a transcode of the run has
\* completed without error, and the integer is the size of the output file
\* measured after the last transcode of the run: not the initial 0 and not a
\* size measured in an earlier attempt.
C36_SizeOnlyAfterCompletedTranscode ==
    [][ReturnsSize =>
          /\ attempt >= 1
          /\ Logged(<<"transcode", attempt>>)
          /\ transcode_error = <<>>
          /\ attempt = 1 => ~out_partial
          /\ \/ pc = "measure" /\ result_size' = out_file
             \/ /\ pc = "loop"
                /\ LastLogged(<<"measure", attempt>>)
                /\ result_size' = after_size_bytes]_vars

\* C37: get_res_preset takes its fallback branch only for a source of fewer
\* than 192x144 pixels: for a source at least that large every video bitrate
\* the deriver passes to it, also one below the bitrate floor, is admitted
\* by a tier.
C37_FallbackOnlyBelowLowestTier ==
    Returned /\ NoTier => width * height < 192 * 144

\* thread t is the only bulk_compress thread of its window, so that
\* compressing of the window, once set by it, is cleared by the user alone
OnlyThread(t) ==
    \A u \in 1..Len(threads) : threads[u].window = threads[t].window => u = t

\* the user has confirmed "Stop" during the bulk compression of thread t
Stopped(t) ==
    /\ threads[t].pc \in {"next", "compress"}
    /\ OnlyThread(t)
    /\ ~compressing[threads[t].window]
    /\ Len(threads') = Len(threads)

\* C38: once the user has confirmed "Stop" no later video of the queue is
\* started, i.e. none is put into COMPRESSING and compress is not called
\* for it, and the interrupted video goes back to PENDING whatever the
\* interrupted call of compress returned.
C38_StopEndsQueue ==
    [][\A t \in 1..Len(threads) :
          Stopped(t) =>
             /\ (threads[t].pc = "next" /\ threads[t].i >= 2) =>
                    threads'[t].pc # "compress"
             /\ (threads[t].pc = "compress" /\ threads'[t].pc = "next") =>
                    rows'[threads[t].window][threads[t].i] = "PENDING"]_vars

====
